---------------------------- MODULE Spec2Model ----------------------------
(***************************************************************************)
(* SimpleCRM Pro API (src/main.py, src/schemas.py).                        *)
(*                                                                         *)
(* The state is the document store (one sequence of documents per          *)
(* collection, in insertion order), the store's identity counter, and the  *)
(* request in hand together with its response.  Every HTTP handler of      *)
(* main.py is one action, taken when no request is in hand; `reply` then   *)
(* hands the response to the caller.  A document is a record; a body is a  *)
(* record that may lack fields or carry values outside an enumeration.     *)
(* Python's None is the string "None"; no input string has that value.     *)
(* Numbers stand for Python floats; every value used is a small integer,   *)
(* which a float represents exactly.  Pydantic's check of primitive types  *)
(* is not modelled: a body is invalid when it lacks a required field or    *)
(* carries a value outside a Literal enumeration.                          *)
(***************************************************************************)
EXTENDS Integers, Sequences, FiniteSets, TLC

VARIABLES store,    \* collection name -> sequence of stored documents
          nextId,   \* the next identity the store assigns
          quota,    \* documents this exploration may still create
          req,      \* the request in hand (NoRequest: none)
          resp,     \* its response
          fault     \* which store call of the request failed (0: none)

vars == <<store, nextId, quota, req, resp, fault>>

----------------------------------------------------------------------------
(* Bounds of the exploration *)

\* documents created under Spec
MaxDocs == 2
\* documents created under SpecDeals
MaxDeals == 3
\* documents created under SpecCap, on top of the preloaded activities
MaxExtra == 1
\* SpecCap preloads ActivityLimit - 1 .. ActivityLimit + CapSlack activities
CapSlack == 1

\* limit=200 of list_activities
ActivityLimit == 200

----------------------------------------------------------------------------
(* Python values *)

None == "None"

\* Python truthiness of an Optional[str]: None and "" are falsy
Truthy(x) == x # None /\ x # ""

\* x or y
Or(x, y) == IF Truthy(x) THEN x ELSE y

Range(s) == {s[i] : i \in 1..Len(s)}

Min(a, b) == IF a < b THEN a ELSE b

\* dict.get(key, default)
Get(d, key, default) == IF key \in DOMAIN d THEN d[key] ELSE default

HexDigit(n) ==
  CASE n = 0 -> "0" [] n = 1 -> "1" [] n = 2 -> "2" [] n = 3 -> "3"
    [] n = 4 -> "4" [] n = 5 -> "5" [] n = 6 -> "6" [] n = 7 -> "7"
    [] n = 8 -> "8" [] n = 9 -> "9" [] n = 10 -> "a" [] n = 11 -> "b"
    [] n = 12 -> "c" [] n = 13 -> "d" [] n = 14 -> "e" [] n = 15 -> "f"

\* str(ObjectId): the identity in hexadecimal, fixed width.  An identity
\* is a number below 16^3 here (12 bytes, 24 digits in the store).
ObjectIdStr(oid) ==
  HexDigit((oid \div 256) % 16) \o HexDigit((oid \div 16) % 16) \o HexDigit(oid % 16)

----------------------------------------------------------------------------
(* schemas.py *)

CollNames == {"contact", "company", "deal", "activity", "emailcampaign"}

ContactStages ==
  {"New", "Contacted", "Qualified", "Proposal Sent", "Negotiation", "Won", "Lost"}

DealStages == {"New", "Contacted", "Proposal Sent", "Negotiation", "Won", "Lost"}

EntityTypes == {"contact", "deal", "company"}

ActivityTypes == {"deal_update", "email_sent", "status_change", "note"}

Segments == {"all_contacts", "by_tag", "by_company", "funnel_stage"}

\* A pydantic model binds a body: the declared fields only, each absent
\* optional field with its default.
Bind(defaults, required, body) ==
  [k \in required \cup DOMAIN defaults |->
     IF k \in DOMAIN body THEN body[k] ELSE defaults[k]]

\* every field in `enums` that the body carries has a value of its Literal
InEnums(enums, body) ==
  \A k \in DOMAIN enums : k \in DOMAIN body => body[k] \in enums[k]

ContactRequired == {"first_name", "last_name"}

ContactDefaults ==
  [email |-> None, phone |-> None, company_id |-> None, tags |-> <<>>,
   source |-> None, notes |-> None, funnel_stage |-> "New"]

ValidContact(body) ==
  /\ ContactRequired \subseteq DOMAIN body
  /\ InEnums([funnel_stage |-> ContactStages], body)

\* variant: only the fields the body sets
ContactUnset(body) == [k \in DOMAIN body \cap (ContactRequired \cup DOMAIN ContactDefaults) |-> body[k]]

Contact(body) == Bind(ContactDefaults, ContactRequired, body)

CompanyRequired == {"company_name"}

CompanyDefaults == [address |-> None, website |-> None, notes |-> None]

ValidCompany(body) == CompanyRequired \subseteq DOMAIN body

Company(body) == Bind(CompanyDefaults, CompanyRequired, body)

DealRequired == {"deal_name", "value"}

DealDefaults ==
  [stage |-> "New", contact_id |-> None, company_id |-> None,
   deadline |-> None, notes |-> None]

\* variant: stage is any string
ValidDealAnyStage(body) == DealRequired \subseteq DOMAIN body

ValidDeal(body) ==
  /\ DealRequired \subseteq DOMAIN body
  /\ InEnums([stage |-> DealStages], body)

Deal(body) == Bind(DealDefaults, DealRequired, body)

ActivityRequired == {"entity_type", "entity_id", "type", "message"}

\* {}
EmptyDict == [k \in {} |-> None]

ActivityDefaults == [meta |-> EmptyDict]

ValidActivity(body) ==
  /\ ActivityRequired \subseteq DOMAIN body
  /\ InEnums([entity_type |-> EntityTypes, type |-> ActivityTypes], body)

Activity(body) == Bind(ActivityDefaults, ActivityRequired, body)

CampaignRequired == {"subject", "html", "segment"}

CampaignDefaults ==
  [tag |-> None, company_id |-> None, funnel_stage |-> None, scheduled_at |-> None]

ValidCampaign(body) ==
  /\ CampaignRequired \subseteq DOMAIN body
  /\ InEnums([segment |-> Segments], body)

EmailCampaign(body) == Bind(CampaignDefaults, CampaignRequired, body)

SendEmailRequired == {"to", "subject", "html"}

SendEmailDefaults == [provider |-> None]

ValidSendEmail(body) == SendEmailRequired \subseteq DOMAIN body

SendEmailPayload(body) == Bind(SendEmailDefaults, SendEmailRequired, body)

----------------------------------------------------------------------------
(* The document store, and database.py, the storage gateway (not among    *)
(* the sources; after the specification's section 4.2)                     *)

EmptyStore == [c \in CollNames |-> <<>>]

\* the document insert_one stores: the data plus the identity assigned
Stored(oid, data) == ("_id" :> oid) @@ data

InsertOne(st, coll, oid, data) == [st EXCEPT ![coll] = Append(@, Stored(oid, data))]

\* The fields of `tags` hold arrays: a filter value matches an array that
\* contains it.  Every other filter is an exact match on a field present.
ArrayFields == {"tags"}

Matches(d, q) ==
  \A k \in DOMAIN q :
    /\ k \in DOMAIN d
    /\ IF k \in ArrayFields THEN q[k] \in Range(d[k]) ELSE d[k] = q[k]

\* find(filter), then limit(limit) when a limit is given (0: none)
get_documents(st, coll, q, limit) ==
  LET found == SelectSeq(st[coll], LAMBDA d : Matches(d, q))
  IN  IF limit = 0 THEN found ELSE SubSeq(found, 1, Min(limit, Len(found)))

\* count_documents(filter)
CountDocuments(st, coll, q) == Len(SelectSeq(st[coll], LAMBDA d : Matches(d, q)))

\* find / count_documents with {field: {"$nin": excluded}}: the field is
\* absent or holds none of the excluded values
FindNin(st, coll, field, excluded) ==
  SelectSeq(st[coll], LAMBDA d : field \notin DOMAIN d \/ d[field] \notin excluded)

NoLimit == 0

----------------------------------------------------------------------------
(* Requests: the bodies and query parameters explored *)

Ann == [first_name |-> "Ann", last_name |-> "Lee"]

ContactBodies ==
  { Ann,
    [first_name |-> "Ann", last_name |-> "Lee", tags |-> <<"vip">>,
     company_id |-> "c1"],
    [first_name |-> "Bo", last_name |-> "Ray", tags |-> <<"lead", "vip">>,
     funnel_stage |-> "Won", email |-> "bo@x.com"],
    [first_name |-> "Cy", last_name |-> "Orr", email |-> "cy@x.com",
     phone |-> None, company_id |-> "c1", tags |-> <<"vip">>, source |-> "web",
     notes |-> None, funnel_stage |-> "Won"],
    [first_name |-> "Ann"],
    [first_name |-> "Ann", last_name |-> "Lee", funnel_stage |-> "Bogus"] }

CompanyBodies ==
  { [company_name |-> "Acme"],
    [company_name |-> "Acme", website |-> "acme.io"],
    [address |-> "1 Main St"] }

DealBodies ==
  { [deal_name |-> "A", value |-> 100],
    [deal_name |-> "B", value |-> 50, stage |-> "Won"],
    [deal_name |-> "C", value |-> 25, stage |-> "Negotiation"],
    [deal_name |-> "D", value |-> 10, stage |-> "Lost", contact_id |-> "000"],
    [deal_name |-> "E", value |-> 5, stage |-> "Qualified"],
    [deal_name |-> "F", value |-> 5, stage |-> "won"],
    [deal_name |-> "G", stage |-> "New"] }

ActivityBodies ==
  { [entity_type |-> "deal", entity_id |-> "000", type |-> "note",
     message |-> "called"],
    [entity_type |-> "contact", entity_id |-> "bo@x.com", type |-> "status_change",
     message |-> "moved", meta |-> [by |-> "ui"]],
    [entity_type |-> "user", entity_id |-> "000", type |-> "note",
     message |-> "called"] }

CampaignBodies ==
  { [subject |-> "Hi", html |-> "<p>Hi</p>", segment |-> "by_tag", tag |-> "vip"],
    [subject |-> "Hi", html |-> "<p>Hi</p>", segment |-> "everyone"] }

ToLists ==
  { <<>>, <<"bo@x.com">>, <<"zed@x.com", "bo@x.com">>, <<"zed@x.com", "zed@x.com">> }

Providers == {None, "", "Resend"}

SendEmailBodies ==
  { [to |-> t, subject |-> "Hi", html |-> "<p>Hi</p>"] : t \in ToLists }
  \cup { [to |-> t, subject |-> "Hi", html |-> "<p>Hi</p>", provider |-> p] :
           t \in ToLists, p \in Providers }
  \cup { [to |-> <<"bo@x.com">>, html |-> "<p>Hi</p>"] }

TagParams == {None, "", "vip"}

CompanyIdParams == {None, "", "c1"}

StageParams == {None, "", "Won"}

EntityTypeParams == {None, "", "contact"}

EntityIdParams == {None, "bo@x.com"}

----------------------------------------------------------------------------
(* main.py: helpers and responses *)

\* variant: `_id` is not popped
to_str_id_keep(doc) ==
  IF DOMAIN doc = {} THEN doc
  ELSE ("id" :> (IF "_id" \in DOMAIN doc THEN ObjectIdStr(doc["_id"]) ELSE "None"))
       @@ doc

\* to_str_id
to_str_id(doc) ==
  IF DOMAIN doc = {} THEN doc
  ELSE [k \in (DOMAIN doc \cup {"id"}) \ {"_id"} |->
          IF k = "id"
          THEN IF "_id" \in DOMAIN doc THEN ObjectIdStr(doc["_id"]) ELSE "None"
          ELSE doc[k]]

\* [to_str_id(d) for d in docs]
Reshape(docs) == [i \in 1..Len(docs) |-> to_str_id(docs[i])]

NoRequest == [op |-> "none"]

NoResponse == [status |-> 0]

\* the server is ready for a request
Idle == req = NoRequest

\* the response goes to the caller
reply ==
  /\ ~Idle
  /\ req' = NoRequest
  /\ resp' = NoResponse
  /\ fault' = 0
  /\ UNCHANGED <<store, nextId, quota>>

\* a JSON object answered
Ok(body) == [status |-> 200, body |-> body]

\* a JSON array of documents answered
OkList(docs) == [status |-> 200, docs |-> docs]

\* pydantic rejects the body before the handler runs
ValidationError == [status |-> 422, detail |-> "validation error"]

\* an exception of the store leaves the handler
StorageError == [status |-> 500, detail |-> "storage error"]

\* A creation handler: new_id = create_document(coll, model); {"id": new_id}
Create(op, coll, body, valid, data, up) ==
  /\ Idle
  /\ req' = [op |-> op, body |-> body]
  /\ IF ~valid
     THEN /\ resp' = ValidationError
          /\ fault' = 0
          /\ UNCHANGED <<store, nextId, quota>>
     ELSE IF ~up
     THEN /\ resp' = StorageError
          /\ fault' = 1
          /\ UNCHANGED <<store, nextId, quota>>
     ELSE /\ quota >= 1
          /\ store' = InsertOne(store, coll, nextId, data)
          /\ nextId' = nextId + 1
          /\ quota' = quota - 1
          /\ resp' = Ok([id |-> ObjectIdStr(nextId)])
          /\ fault' = 0

\* A read handler
Read(request, answer, up) ==
  /\ Idle
  /\ req' = request
  /\ resp' = IF up THEN answer ELSE StorageError
  /\ fault' = IF up THEN 0 ELSE 1
  /\ UNCHANGED <<store, nextId, quota>>

----------------------------------------------------------------------------
(* main.py: the handlers *)

read_root ==
  /\ Idle
  /\ req' = [op |-> "read_root"]
  /\ resp' = Ok([message |-> "SimpleCRM Pro backend is running"])
  /\ fault' = 0
  /\ UNCHANGED <<store, nextId, quota>>

\* the names of the collections that hold a document
CollectionNames(st) == {c \in CollNames : st[c] # <<>>}

\* db is None ("none"), db lists its collections ("ok"), or the listing
\* raises ("error"); the probe answers 200 in each case
test_database ==
  \E db \in {"none", "ok", "error"} :
    /\ Idle
    /\ req' = [op |-> "test_database"]
    /\ resp' = Ok([backend |-> "Running",
                   database |-> CASE db = "none" -> "Available but not initialized"
                                  [] db = "ok" -> "Connected & Working"
                                  [] db = "error" -> "Connected but Error",
                   connection_status |-> IF db = "none" THEN "Not Connected"
                                         ELSE "Connected",
                   collections |-> IF db = "ok" THEN CollectionNames(store) ELSE {}])
    /\ fault' = IF db = "error" THEN 1 ELSE 0
    /\ UNCHANGED <<store, nextId, quota>>

create_contact ==
  \E body \in ContactBodies, up \in BOOLEAN :
    Create("create_contact", "contact", body, ValidContact(body), Contact(body), up)

create_company ==
  \E body \in CompanyBodies, up \in BOOLEAN :
    Create("create_company", "company", body, ValidCompany(body), Company(body), up)

create_deal ==
  \E body \in DealBodies, up \in BOOLEAN :
    Create("create_deal", "deal", body, ValidDeal(body), Deal(body), up)

create_activity ==
  \E body \in ActivityBodies, up \in BOOLEAN :
    Create("create_activity", "activity", body, ValidActivity(body), Activity(body), up)

create_campaign ==
  \E body \in CampaignBodies, up \in BOOLEAN :
    Create("create_campaign", "emailcampaign", body, ValidCampaign(body),
           EmailCampaign(body), up)

\* q = {}; if tag: q["tags"] = tag; ...: a falsy parameter adds no filter
Query(params) == [k \in {k \in DOMAIN params : Truthy(params[k])} |-> params[k]]

\* variant: the stage parameter is ignored
ContactQueryNoStage(tag, company_id, stage) ==
  Query([tags |-> tag, company_id |-> company_id])

ContactQuery(tag, company_id, stage) ==
  Query([tags |-> tag, company_id |-> company_id, funnel_stage |-> stage])

\* docs = get_documents("contact", q); [to_str_id(d) for d in docs]
ListContacts(st, tag, company_id, stage) ==
  Reshape(get_documents(st, "contact", ContactQuery(tag, company_id, stage), NoLimit))

\* variant: the reshaped documents replace the stored ones
list_contacts_writeback ==
  \E tag \in TagParams, company_id \in CompanyIdParams, stage \in StageParams,
     up \in BOOLEAN :
    LET docs == get_documents(store, "contact", ContactQuery(tag, company_id, stage),
                              NoLimit)
    IN  /\ Idle
        /\ req' = [op |-> "list_contacts", tag |-> tag, company_id |-> company_id,
                   stage |-> stage]
        /\ resp' = IF up THEN OkList(Reshape(docs)) ELSE StorageError
        /\ fault' = IF up THEN 0 ELSE 1
        /\ store' = IF up THEN [store EXCEPT !["contact"] = Reshape(@)] ELSE store
        /\ UNCHANGED <<nextId, quota>>

list_contacts ==
  \E tag \in TagParams, company_id \in CompanyIdParams, stage \in StageParams,
     up \in BOOLEAN :
    Read([op |-> "list_contacts", tag |-> tag, company_id |-> company_id,
          stage |-> stage],
         OkList(ListContacts(store, tag, company_id, stage)), up)

list_companies ==
  \E up \in BOOLEAN :
    LET docs == get_documents(store, "company", <<>>, NoLimit)
    IN  Read([op |-> "list_companies"], OkList(Reshape(docs)), up)

\* q = {"stage": stage} if stage else {}
DealQuery(stage) == Query([stage |-> stage])

list_deals ==
  \E stage \in StageParams, up \in BOOLEAN :
    LET docs == get_documents(store, "deal", DealQuery(stage), NoLimit)
    IN  Read([op |-> "list_deals", stage |-> stage], OkList(Reshape(docs)), up)

ActivityQuery(entity_type, entity_id) ==
  Query([entity_type |-> entity_type, entity_id |-> entity_id])

\* variant: no limit is passed
ActivityDocsNoLimit(st, entity_type, entity_id) ==
  get_documents(st, "activity", ActivityQuery(entity_type, entity_id), NoLimit)

\* docs = get_documents("activity", q, limit=200)
ActivityDocs(st, entity_type, entity_id) ==
  get_documents(st, "activity", ActivityQuery(entity_type, entity_id), ActivityLimit)

list_activities ==
  \E entity_type \in EntityTypeParams, entity_id \in EntityIdParams, up \in BOOLEAN :
    Read([op |-> "list_activities", entity_type |-> entity_type,
          entity_id |-> entity_id],
         OkList(Reshape(ActivityDocs(store, entity_type, entity_id))), up)

\* for d in ...: pipeline_value += float(d.get("value", 0) or 0)
\* (`v or 0` is 0 for the falsy v, which for a number is 0)
RECURSIVE SumValue(_)
SumValue(docs) ==
  IF docs = <<>> THEN 0
  ELSE LET v == Get(Head(docs), "value", 0)
       IN  (IF v = 0 THEN 0 ELSE v) + SumValue(Tail(docs))

\* variant: active_deals leaves out the Won deals
SummaryActiveOpen(st) ==
  [total_contacts |-> CountDocuments(st, "contact", <<>>),
   active_deals |-> Len(FindNin(st, "deal", "stage", {"Won", "Lost"})),
   pipeline_value |-> SumValue(FindNin(st, "deal", "stage", {"Won", "Lost"})),
   won_deals |-> CountDocuments(st, "deal", [stage |-> "Won"]),
   created_last_30_days |-> CountDocuments(st, "contact", <<>>)]

\* variant: pipeline_value takes in the Won deals
SummaryPipelineNotLost(st) ==
  [total_contacts |-> CountDocuments(st, "contact", <<>>),
   active_deals |-> Len(FindNin(st, "deal", "stage", {"Lost"})),
   pipeline_value |-> SumValue(FindNin(st, "deal", "stage", {"Lost"})),
   won_deals |-> CountDocuments(st, "deal", [stage |-> "Won"]),
   created_last_30_days |-> CountDocuments(st, "contact", <<>>)]

\* the five numbers of stats_summary
Summary(st) ==
  [total_contacts |-> CountDocuments(st, "contact", <<>>),
   active_deals |-> Len(FindNin(st, "deal", "stage", {"Lost"})),
   pipeline_value |-> SumValue(FindNin(st, "deal", "stage", {"Won", "Lost"})),
   won_deals |-> CountDocuments(st, "deal", [stage |-> "Won"]),
   created_last_30_days |-> CountDocuments(st, "contact", <<>>)]

\* an exception of the store is caught and raised as HTTPException(500)
stats_summary ==
  \E up \in BOOLEAN :
    Read([op |-> "stats_summary"], Ok(Summary(store)), up)

\* variant: the activity refers to the subject, not the address
EmailActivityNoAddr(addr, payload) ==
  [entity_type |-> "contact", entity_id |-> payload.subject, type |-> "email_sent",
   message |-> "Email sent: " \o payload.subject,
   meta |-> [provider |-> Or(payload.provider, "mock")]]

\* the activity send_email logs for one recipient
EmailActivity(addr, payload) ==
  [entity_type |-> "contact", entity_id |-> addr, type |-> "email_sent",
   message |-> "Email sent: " \o payload.subject,
   meta |-> [provider |-> Or(payload.provider, "mock")]]

\* for addr in payload.to: create_document("activity", {...}), for the first
\* n recipients; the i-th insert is assigned the i-th next identity
LogEmails(st, oid, payload, n) ==
  [st EXCEPT !["activity"] =
     @ \o [i \in 1..n |-> Stored(oid + i - 1, EmailActivity(payload.to[i], payload))]]

\* variant: a failure undoes the activities of the request
WrittenRollback(to, failAt) == IF failAt = 0 THEN Len(to) ELSE 0

\* how many recipients are logged when store call `failAt` fails (0: none fails)
Written(to, failAt) == IF failAt = 0 THEN Len(to) ELSE failAt - 1

send_email ==
  \E body \in SendEmailBodies :
    /\ Idle
    /\ req' = [op |-> "send_email", body |-> body]
    /\ IF ~ValidSendEmail(body)
       THEN /\ resp' = ValidationError
            /\ fault' = 0
            /\ UNCHANGED <<store, nextId, quota>>
       ELSE \E failAt \in 0..Len(body.to) :
              LET payload == SendEmailPayload(body)
                  n == Written(payload.to, failAt)
              IN  /\ quota >= n
                  /\ store' = LogEmails(store, nextId, payload, n)
                  /\ nextId' = nextId + n
                  /\ quota' = quota - n
                  /\ fault' = failAt
                  /\ resp' = IF failAt = 0
                             THEN Ok([status |-> "queued",
                                      provider |-> Or(payload.provider, "mock"),
                                      sent |-> Len(payload.to)])
                             ELSE StorageError

----------------------------------------------------------------------------
(* Specifications *)

Init ==
  /\ store = EmptyStore
  /\ nextId = 0
  /\ quota = MaxDocs
  /\ req = NoRequest
  /\ resp = NoResponse
  /\ fault = 0

Next ==
  \/ read_root
  \/ test_database
  \/ create_contact
  \/ create_company
  \/ create_deal
  \/ create_activity
  \/ create_campaign
  \/ list_contacts
  \/ list_companies
  \/ list_deals
  \/ list_activities
  \/ stats_summary
  \/ send_email
  \/ reply

Spec == Init /\ [][Next]_vars

\* The deal collection alone: its handlers and the summary.
InitDeals ==
  /\ store = EmptyStore
  /\ nextId = 0
  /\ quota = MaxDeals
  /\ req = NoRequest
  /\ resp = NoResponse
  /\ fault = 0

NextDeals ==
  \/ create_deal
  \/ list_deals
  \/ stats_summary
  \/ reply

SpecDeals == InitDeals /\ [][NextDeals]_vars

\* The store after one POST /email/send with n recipients
Bulk(n) ==
  LogEmails(EmptyStore, 0,
            [to |-> [i \in 1..n |-> "bo@x.com"], subject |-> "Hi",
             html |-> "<p>Hi</p>", provider |-> None],
            n)

\* The activity collection around the cap of list_activities.
InitCap ==
  /\ \E n \in (ActivityLimit - 1)..(ActivityLimit + CapSlack) :
       /\ store = Bulk(n)
       /\ nextId = n
  /\ quota = MaxExtra
  /\ req = NoRequest
  /\ resp = NoResponse
  /\ fault = 0

NextCap ==
  \/ create_activity
  \/ send_email
  \/ list_activities
  \/ reply

SpecCap == InitCap /\ [][NextCap]_vars

----------------------------------------------------------------------------
(* Properties *)

GetOps ==
  {"read_root", "test_database", "list_contacts", "list_companies", "list_deals",
   "list_activities", "stats_summary"}

\* the identities of all stored documents, as the API exposes them
StoredIds(st) ==
  UNION {{ObjectIdStr(d["_id"]) : d \in Range(st[c])} : c \in CollNames}

\* a response document without its id
Fields(r) == [k \in DOMAIN r \ {"id"} |-> r[k]]

\* C1: a step of any handler keeps every stored document, with its identity
\* and its field values, in its collection; a GET handler leaves every
\* collection as it is.
C1_StoreOnlyGrows ==
  [][/\ \A c \in CollNames :
          \A i \in 1..Len(store[c]) :
             \E j \in 1..Len(store'[c]) : store'[c][j] = store[c][i]
     /\ req'.op \in GetOps => store' = store]_vars

\* a creation succeeds on a collection that already holds a document
C1_Witness ==
  /\ req.op = "create_contact"
  /\ resp.status = 200
  /\ Len(store["contact"]) = 2

\* C2 as stated: after a successful POST /contacts, GET /contacts without
\* filters lists exactly one document with the returned id, its fields are
\* the submitted body, and no document stored before the POST has that id.
C2_FieldsEqualBody ==
  [][req'.op = "create_contact" /\ resp'.status = 200 =>
       LET out == ListContacts(store', None, None, None)
           hits == {i \in 1..Len(out) : out[i].id = resp'.body.id}
       IN  /\ Cardinality(hits) = 1
           /\ \A i \in hits : Fields(out[i]) = req'.body
           /\ resp'.body.id \notin StoredIds(store)]_vars

\* a Contact payload with each optional field it omits at its default
WithContactDefaults(body) ==
  [k \in {"first_name", "last_name", "email", "phone", "company_id", "tags",
          "source", "notes", "funnel_stage"} |->
     IF k \in DOMAIN body THEN body[k]
     ELSE IF k = "tags" THEN <<>>
     ELSE IF k = "funnel_stage" THEN "New"
     ELSE None]

\* C2 amended: the fields are those of the body as the Contact schema binds
\* it: every optional field the body omits is present with its default.
C2_FieldsEqualBoundBody ==
  [][req'.op = "create_contact" /\ resp'.status = 200 =>
       LET out == ListContacts(store', None, None, None)
           hits == {i \in 1..Len(out) : out[i].id = resp'.body.id}
       IN  /\ Cardinality(hits) = 1
           /\ \A i \in hits : Fields(out[i]) = WithContactDefaults(req'.body)
           /\ resp'.body.id \notin StoredIds(store)]_vars

\* a body that omits its optional fields is posted to a store that holds a
\* contact already
C2_Witness ==
  /\ req.op = "create_contact"
  /\ resp.status = 200
  /\ req.body = Ann
  /\ Len(store["contact"]) = 2
  /\ Len(ListContacts(store, None, None, None)) = 2

\* C3: POST /deals with a stage outside the six stages of a deal is answered
\* with a validation error, and no collection changes.
C3_BadStageRejected ==
  [][/\ req'.op = "create_deal"
     /\ "stage" \in DOMAIN req'.body
     /\ req'.body["stage"] \notin
          {"New", "Contacted", "Proposal Sent", "Negotiation", "Won", "Lost"}
     => /\ resp' = ValidationError
        /\ store' = store
        /\ nextId' = nextId]_vars

\* a contact's stage that is no deal's stage is rejected while a deal is stored
C3_Witness ==
  /\ req.op = "create_deal"
  /\ "stage" \in DOMAIN req.body
  /\ req.body["stage"] = "Qualified"
  /\ resp.status = 422
  /\ Len(store["deal"]) >= 1

\* What POST /email/send does to the store when no store call fails: one
\* activity per position of `to`, after those stored before, nothing else.
SendLogsAll(st, st2, to) ==
  LET old == Len(st["activity"])
  IN  /\ Len(st2["activity"]) = old + Len(to)
      /\ SubSeq(st2["activity"], 1, old) = st["activity"]
      /\ \A i \in 1..Len(to) :
           LET d == st2["activity"][old + i]
           IN  /\ d["type"] = "email_sent"
               /\ d["entity_type"] = "contact"
               /\ d["entity_id"] = to[i]
      /\ \A c \in CollNames \ {"activity"} : st2[c] = st[c]

C5_AtMost200 ==
  req.op = "list_activities" /\ resp.status = 200 => Len(resp.docs) <= 200

\* more than 200 activities match, and 200 are listed
C5_Witness ==
  /\ req.op = "list_activities"
  /\ resp.status = 200
  /\ req.entity_type = "contact"
  /\ Len(store["activity"]) > 200
  /\ Len(resp.docs) = 200

\* the sum of f over a finite set
RECURSIVE SetSum(_, _)
SetSum(f, S) ==
  IF S = {} THEN 0
  ELSE LET x == CHOOSE x \in S : TRUE IN f[x] + SetSum(f, S \ {x})

\* the deals, by position in the collection
Deals == store["deal"]

\* the value a deal contributes: 0 when it has none
DealValue == [i \in 1..Len(Deals) |-> Get(Deals[i], "value", 0)]

C7_ActiveIsNotLost ==
  req.op = "stats_summary" /\ resp.status = 200 =>
    /\ resp.body["active_deals"] =
         Cardinality({i \in 1..Len(Deals) : Deals[i]["stage"] # "Lost"})
    /\ resp.body["active_deals"] >= resp.body["won_deals"]

\* deals in stages New, Won, Negotiation: 3 active
C7_Witness ==
  /\ req.op = "stats_summary"
  /\ resp.status = 200
  /\ [i \in 1..Len(Deals) |-> Deals[i]["stage"]] = <<"New", "Won", "Negotiation">>
  /\ resp.body["active_deals"] = 3

ListOps ==
  [list_contacts |-> "contact", list_companies |-> "company", list_deals |-> "deal",
   list_activities |-> "activity"]

\* C8: a document a list endpoint answers with is a stored document of the
\* collection with `_id` replaced by `id`, the identity as a string, and
\* every other field as stored.
C8_OnlyIdRenamed ==
  req.op \in DOMAIN ListOps /\ resp.status = 200 =>
    \A i \in 1..Len(resp.docs) :
      LET r == resp.docs[i]
      IN  \E d \in Range(store[ListOps[req.op]]) :
            /\ "id" \in DOMAIN r
            /\ r["id"] = ObjectIdStr(d["_id"])
            /\ "_id" \notin DOMAIN r
            /\ DOMAIN r \ {"id"} = DOMAIN d \ {"_id"}
            /\ \A k \in DOMAIN d \ {"_id"} : r[k] = d[k]

\* activities logged by POST /email/send and by POST /activities are listed
C8_Witness ==
  /\ req.op = "list_activities"
  /\ resp.status = 200
  /\ Len(resp.docs) = 2
  /\ resp.docs[1]["type"] # resp.docs[2]["type"]

\* the stored contacts a GET /contacts must answer with, when the parameter
\* values in `free` constrain nothing
Satisfying(free) ==
  {d \in Range(store["contact"]) :
     /\ req.tag \notin free => req.tag \in Range(d["tags"])
     /\ req.company_id \notin free => d["company_id"] = req.company_id
     /\ req.stage \notin free => d["funnel_stage"] = req.stage}

AnswersExactly(docs) ==
  /\ {resp.docs[i]["id"] : i \in 1..Len(resp.docs)} = {ObjectIdStr(d["_id"]) : d \in docs}
  /\ Len(resp.docs) = Cardinality(docs)

\* C9 as stated: GET /contacts answers with exactly the contacts that
\* satisfy every parameter supplied.
C9_EverySuppliedParam ==
  req.op = "list_contacts" /\ resp.status = 200 => AnswersExactly(Satisfying({None}))

\* C9 amended: a parameter supplied as the empty string constrains nothing.
C9_EveryNonEmptyParam ==
  req.op = "list_contacts" /\ resp.status = 200 => AnswersExactly(Satisfying({None, ""}))

\* all three parameters select one of two stored contacts
C9_Witness ==
  /\ req.op = "list_contacts"
  /\ resp.status = 200
  /\ Truthy(req.tag) /\ Truthy(req.company_id) /\ Truthy(req.stage)
  /\ Len(store["contact"]) = 2
  /\ Len(resp.docs) = 1

\* C10: when store call k of POST /email/send fails, the caller gets the
\* error, the k-1 activities of the earlier recipients stay stored, and
\* nothing else is written.
C10_PartialLogKept ==
  [][req'.op = "send_email" /\ fault' >= 1 =>
       LET to == req'.body["to"]
       IN  /\ fault' <= Len(to)
           /\ resp' = StorageError
           /\ SendLogsAll(store, store', SubSeq(to, 1, fault' - 1))]_vars

\* the second of two store calls fails, on top of a stored activity
C10_Witness ==
  /\ req.op = "send_email"
  /\ fault = 2
  /\ Len(store["activity"]) = 2

============================================================================
